---- MODULE Spec2Model ----
(***************************************************************************)
(* A model of the ScriptPlan scheduling core.                              *)
(*                                                                         *)
(*   - the time grid: date_to_idx_fast / idx_to_date_fast                  *)
(*     (scoreboard_cy.pyx) and project_date_to_idx / project_idx_to_date   *)
(*     / scoreboard_size (time utilities), on whole seconds and, in a      *)
(*     specification of its own, in the arithmetic of doubles;             *)
(*   - the calendar: check_working_hours_fast, calculate_daily_hours and   *)
(*     is_working_time_fast;                                               *)
(*   - the scoreboard scan collect_intervals_fast;                         *)
(*   - the scheduler (task state machine, allocator, constraint engine,    *)
(*     fixed-point driver).                                                *)
(*                                                                         *)
(* Instants are integers (seconds since an arbitrary epoch), a timedelta   *)
(* is the integer difference of two instants.  Python lists are 0-based,   *)
(* TLA+ sequences 1-based: the list element l[i] is written l[i + 1].      *)
(***************************************************************************)
EXTENDS Integers, Sequences, FiniteSets, TLC

VARIABLES
    \* ---- time grid: the arguments of the conversion functions
    date,               \* the instant handed to date_to_idx_fast
    start_date,         \* scoreboard / project start
    end_date,           \* scoreboard / project end
    resolution,         \* slot duration in seconds
    size,               \* scoreboard size
    force_into_project, \* the clamp flag
    idx,                \* the index handed to idx_to_date_fast
    date_from,          \* how `date` was obtained: "given" or the function
    ret_idx,            \* the index returned by the last instant -> index call
    ret_from,           \* the function that returned last, "none" before
    ret_size,           \* the size returned by scoreboard_size
    elapsed,            \* a timedelta date - start (end - start) in ticks
    \* ---- calendar: the arguments of check_working_hours_fast
    slot_minutes,       \* minutes from midnight
    weekday,            \* 0 = Monday .. 6 = Sunday
    hours_dict,         \* weekday -> list of ((start_h, start_m), (end_h, end_m))
    check_cross_midnight,
    wh_pc,              \* "call" before the call, "return" after it
    wh_ret,             \* the returned flag
    \* ---- calendar: calculate_daily_hours
    dh_intervals,       \* the list of ((start_h, start_m), (end_h, end_m))
    dh_pc,              \* "call" before the call, "return" after it
    dh_ret,             \* the returned number of hours, a fraction
    \* ---- calendar: is_working_time_fast(idx, start_date, resolution,
    \*      daily_start_hour, daily_end_hour)
    daily_start_hour,
    daily_end_hour,
    wt_pc,              \* "call" before the call, "return" after it
    wt_ret,             \* the returned flag
    \* ---- scoreboard scan: the arguments of collect_intervals_fast
    sb,                 \* the scoreboard list: "None" (free) or a task
    start_idx,          \* start index for the scan
    end_idx,            \* end index for the scan
    s_idx,              \* original start index
    e_idx,              \* original end index
    min_duration_slots,
    predicate,          \* the callable: "is_free" or "is_booked"
    ci_pc,              \* "call" before the call, "return" after it,
                        \* "crash" when the call ended the process
    intervals,          \* the returned list of TimeInterval(start, end)
    stray,              \* what a read outside the list's storage yields
    sb_reads,           \* the indices at which the call subscripted sb
    pred_calls,         \* the indices whose value the call gave to predicate
    \* ---- scheduler: the project model (fixed by the parser)
    tasks,              \* task -> [effort, priority, resource]
    edges,              \* set of DependencyEdge [source, target, gap, max_gap]
    scheduling,         \* project direction: "asap" or "alap"
    working,            \* resource -> set of working slots (the calendar)
    daily_max,          \* limit of the container resource that holds all
                        \* resources, in slots per calendar day, or NoLimit
    \* ---- scheduler: the state the driver mutates
    status,             \* task -> Unscheduled, Ready, Placed, Frozen, Failed
    bookings,           \* task -> set of slots booked on its resource
    scoreboard,         \* resource -> slot -> Free, OffDuty or Booked(task)
    scheduled_start,    \* task -> first booked slot
    scheduled_end,      \* task -> slot after the last booked slot
    round,              \* number of the current round
    cursor,             \* position in the round's visit order
    changed,            \* some task transitioned in this round
    container_start,    \* start of the container task
    container_end,      \* end of the container task
    visited,            \* the tasks visited in this round, in visit order
    first_visit,        \* the visit order of the first round
    phase               \* "running", "emitted", "failed", "nonconvergent"

grid_vars == <<date, start_date, end_date, resolution, size,
               force_into_project, idx, date_from, ret_idx, ret_from,
               ret_size, elapsed>>

hours_vars == <<slot_minutes, weekday, hours_dict, check_cross_midnight,
                wh_pc, wh_ret, dh_intervals, dh_pc, dh_ret,
                daily_start_hour, daily_end_hour, wt_pc, wt_ret>>

scan_vars == <<sb, start_idx, end_idx, s_idx, e_idx, min_duration_slots,
               predicate, ci_pc, intervals, stray, sb_reads, pred_calls>>

model_vars == <<tasks, edges, scheduling, working, daily_max>>

sched_vars == <<status, bookings, scoreboard, scheduled_start, scheduled_end,
                round, cursor, changed, container_start, container_end,
                visited, first_visit, phase>>

vars == <<grid_vars, hours_vars, scan_vars, model_vars, sched_vars>>

(***************************************************************************)
(* Bounds of the model.                                                    *)
(***************************************************************************)
MaxInstant    == 9    \* instants range over -MaxInstant .. MaxInstant
MaxResolution == 3    \* resolutions range over 1 .. MaxResolution
MaxSize       == 3    \* scoreboard sizes range over 1 .. MaxSize
MaxSb         == 4    \* scoreboard lists have 1 .. MaxSb slots
MaxMinDuration == 2   \* min_duration_slots ranges over 1 .. MaxMinDuration
NSlots        == 9    \* the project has slots 0 .. NSlots - 1
DayLen        == 3    \* slots per calendar day
TicksPerSecond == 2   \* timedelta resolution (10^6 in datetime.timedelta)
MantissaBits  == 4    \* significand width of a double (53 in IEEE 754)
GridDay       == 4    \* length of a day on the scale of Instants (86400)
MaxSlotIdx    == 168  \* is_working_time_fast gets slots 0 .. MaxSlotIdx
MaxDailyIntervals == 4 \* calculate_daily_hours gets 0 .. MaxDailyIntervals
                      \* intervals

(***************************************************************************)
(* Each component has a specification of its own; the variables of the     *)
(* other components rest at the values below.                              *)
(***************************************************************************)
GridIdle ==
    /\ date = 0
    /\ start_date = 0
    /\ end_date = 0
    /\ resolution = 1
    /\ size = 1
    /\ force_into_project = FALSE
    /\ idx = 0
    /\ date_from = "given"
    /\ ret_idx = 0
    /\ ret_from = "none"
    /\ ret_size = 0
    /\ elapsed = 0

HoursIdle ==
    /\ slot_minutes = 0
    /\ weekday = 0
    /\ hours_dict = <<>>
    /\ check_cross_midnight = FALSE
    /\ wh_pc = "call"
    /\ wh_ret = FALSE
    /\ dh_intervals = <<>>
    /\ dh_pc = "call"
    /\ dh_ret = [num |-> 0, den |-> 1]
    /\ daily_start_hour = 0
    /\ daily_end_hour = 0
    /\ wt_pc = "call"
    /\ wt_ret = FALSE

ScanIdle ==
    /\ sb = <<>>
    /\ start_idx = 0
    /\ end_idx = 0
    /\ s_idx = 0
    /\ e_idx = 0
    /\ min_duration_slots = 1
    /\ predicate = "is_free"
    /\ ci_pc = "call"
    /\ intervals = <<>>
    /\ stray = "None"
    /\ sb_reads = {}
    /\ pred_calls = {}

SchedIdle ==
    /\ tasks = <<>>
    /\ edges = {}
    /\ scheduling = "asap"
    /\ working = <<>>
    /\ daily_max = -1
    /\ status = <<>>
    /\ bookings = <<>>
    /\ scoreboard = <<>>
    /\ scheduled_start = <<>>
    /\ scheduled_end = <<>>
    /\ round = 0
    /\ cursor = 0
    /\ changed = FALSE
    /\ container_start = 0
    /\ container_end = 0
    /\ visited = <<>>
    /\ first_visit = <<>>
    /\ phase = "idle"

(***************************************************************************)
(* C arithmetic.                                                           *)
(***************************************************************************)

\* <int>(a / <double>b) for b > 0: the C cast of a double to int discards
\* the fraction, i.e. rounds toward zero.
CastInt(a, b) == IF a >= 0 THEN a \div b ELSE -((-a) \div b)

(***************************************************************************)
(* Calendar: check_working_hours_fast                                      *)
(***************************************************************************)

DaysPerWeek   == 7

\* a % b on C ints under cdivision=True: the remainder has the sign of the
\* dividend (C99 truncating division), not Python's sign of the divisor.
CRem(a, b) == IF a >= 0 THEN a % b ELSE -((-a) % b)

\* start_h * 60 + start_m, end_h * 60 + end_m of one interval
StartMinutes(interval) == interval[1][1] * 60 + interval[1][2]
EndMinutes(interval)   == interval[2][1] * 60 + interval[2][2]

\* The loop over the weekday's own intervals: TRUE iff some iteration
\* returns True.
OwnDayMatchStrict(day_intervals, sm) ==
    \E i \in 1 .. Len(day_intervals) :
        LET start_minutes == StartMinutes(day_intervals[i])
            end_minutes   == EndMinutes(day_intervals[i])
        IN  IF end_minutes < start_minutes
            THEN sm >= start_minutes \/ sm < end_minutes
            ELSE start_minutes <= sm /\ sm < end_minutes

OwnDayMatch(day_intervals, sm) ==
    \E i \in 1 .. Len(day_intervals) :
        LET start_minutes == StartMinutes(day_intervals[i])
            end_minutes   == EndMinutes(day_intervals[i])
        IN  IF end_minutes <= start_minutes
            THEN sm >= start_minutes \/ sm < end_minutes
            ELSE start_minutes <= sm /\ sm < end_minutes

\* The loop over the previous weekday's day_intervals.
PrevDayMatch(day_intervals, sm) ==
    \E i \in 1 .. Len(day_intervals) :
        LET start_minutes == StartMinutes(day_intervals[i])
            end_minutes   == EndMinutes(day_intervals[i])
        IN  end_minutes <= start_minutes /\ sm < end_minutes

\* prev_weekday = (weekday - 1) % 7
PrevWeekday(wd) == CRem(wd - 1, DaysPerWeek)

\* The cross-midnight check of the previous day.
CrossMidnightFromPrev(sm, wd, hd) ==
    LET prev_weekday == PrevWeekday(wd)
    IN  /\ prev_weekday \in DOMAIN hd
        /\ PrevDayMatch(hd[prev_weekday], sm)

check_working_hours_nofall(sm, wd, hd, ccm) ==
    IF wd \notin DOMAIN hd THEN FALSE
    ELSE IF hd[wd] = <<>>
         THEN IF ~ccm THEN FALSE
              ELSE CrossMidnightFromPrev(sm, wd, hd)
         ELSE IF OwnDayMatch(hd[wd], sm) THEN TRUE
              ELSE IF ccm THEN CrossMidnightFromPrev(sm, wd, hd)
                   ELSE FALSE

check_working_hours_fast(sm, wd, hd, ccm) ==
    IF wd \notin DOMAIN hd
    THEN IF ~ccm THEN FALSE
         ELSE CrossMidnightFromPrev(sm, wd, hd)
    ELSE IF hd[wd] = <<>>
         THEN IF ~ccm THEN FALSE
              ELSE CrossMidnightFromPrev(sm, wd, hd)
         ELSE IF OwnDayMatch(hd[wd], sm) THEN TRUE
              ELSE IF ccm THEN CrossMidnightFromPrev(sm, wd, hd)
                   ELSE FALSE

\* Inputs: interval lists and weekly templates.
NightShift == <<<<22, 0>>, <<6, 0>>>>      \* 22:00 - 06:00, crosses midnight
DayShift   == <<<<9, 0>>, <<17, 0>>>>      \* 09:00 - 17:00
EmptySpan  == <<<<9, 0>>, <<9, 0>>>>       \* 09:00 - 09:00, end = start
MidnightSpan == <<<<0, 0>>, <<0, 0>>>>     \* 00:00 - 00:00, end = start

IntervalLists ==
    {<<>>, <<NightShift>>, <<DayShift>>, <<EmptySpan>>, <<MidnightSpan>>}

Weekdays == 0 .. (DaysPerWeek - 1)

\* Templates that declare one weekday, or one weekday and the next one.
Templates ==
    UNION {[{d} -> IntervalLists] : d \in Weekdays}
    \cup UNION {[{d, (d + 1) % DaysPerWeek} -> IntervalLists] : d \in Weekdays}

\* Minutes of the day around every full hour.
SlotMinutes == {h * 60 + m : h \in 0 .. 23, m \in {0, 59}}

InitHours ==
    /\ GridIdle
    /\ ScanIdle
    /\ SchedIdle
    /\ slot_minutes \in SlotMinutes
    /\ weekday \in Weekdays
    /\ hours_dict \in Templates
    /\ check_cross_midnight \in BOOLEAN
    /\ wh_pc = "call"
    /\ wh_ret = FALSE
    /\ dh_intervals = <<>>
    /\ dh_pc = "call"
    /\ dh_ret = [num |-> 0, den |-> 1]
    /\ daily_start_hour = 0
    /\ daily_end_hour = 0
    /\ wt_pc = "call"
    /\ wt_ret = FALSE

\* wh_ret = check_working_hours_fast(slot_minutes, weekday, hours_dict,
\*                                   check_cross_midnight)
CallCheckWorkingHours ==
    /\ wh_pc = "call"
    /\ wh_ret' = check_working_hours_fast(slot_minutes, weekday, hours_dict,
                                          check_cross_midnight)
    /\ wh_pc' = "return"
    /\ UNCHANGED <<slot_minutes, weekday, hours_dict, check_cross_midnight,
                   dh_intervals, dh_pc, dh_ret>>
    /\ UNCHANGED <<daily_start_hour, daily_end_hour, wt_pc, wt_ret>>
    /\ UNCHANGED <<grid_vars, scan_vars, model_vars, sched_vars>>

NextHours == CallCheckWorkingHours

SpecHours == InitHours /\ [][NextHours]_vars

(***************************************************************************)
(* Calendar: calculate_daily_hours                                         *)
(***************************************************************************)

MinutesPerHour == 60
MinutesPerDay  == 1440

RECURSIVE TotalMinutes(_, _)
\* The loop: total_minutes += (end_minutes - start_minutes) for the
\* intervals from position i on.
TotalMinutes(list, i) ==
    IF i > Len(list) THEN 0
    ELSE (EndMinutes(list[i]) - StartMinutes(list[i]))
            + TotalMinutes(list, i + 1)

\* <float>total_minutes / 60.0: the quotient, kept as a fraction.
calculate_daily_hours(list) ==
    [num |-> TotalMinutes(list, 1), den |-> MinutesPerHour]

\* Inputs: lists of non-overlapping intervals.
Morning == <<<<6, 0>>, <<9, 0>>>>          \* 06:00 - 09:00
Evening == <<<<17, 0>>, <<18, 30>>>>       \* 17:00 - 18:30

DailyIntervals ==
    {NightShift, DayShift, EmptySpan, MidnightSpan, Morning, Evening}

\* The minutes of the day an interval denotes as check_working_hours_fast
\* reads it for the interval's own weekday and, past midnight, the next.
Denoted(interval) ==
    IF EndMinutes(interval) <= StartMinutes(interval)
    THEN (StartMinutes(interval) .. (MinutesPerDay - 1))
            \cup (0 .. (EndMinutes(interval) - 1))
    ELSE StartMinutes(interval) .. (EndMinutes(interval) - 1)

NonOverlapping(list) ==
    \A i, j \in 1 .. Len(list) :
        i # j => Denoted(list[i]) \cap Denoted(list[j]) = {}

DailyLists ==
    {list \in UNION {[1 .. n -> DailyIntervals] : n \in 0 .. MaxDailyIntervals} :
        NonOverlapping(list)}

InitDailyHours ==
    /\ GridIdle
    /\ ScanIdle
    /\ SchedIdle
    /\ slot_minutes = 0
    /\ weekday = 0
    /\ hours_dict = <<>>
    /\ check_cross_midnight = FALSE
    /\ wh_pc = "call"
    /\ wh_ret = FALSE
    /\ dh_intervals \in DailyLists
    /\ dh_pc = "call"
    /\ dh_ret = [num |-> 0, den |-> 1]
    /\ daily_start_hour = 0
    /\ daily_end_hour = 0
    /\ wt_pc = "call"
    /\ wt_ret = FALSE

\* dh_ret = calculate_daily_hours(dh_intervals)
CallCalculateDailyHours ==
    /\ dh_pc = "call"
    /\ dh_ret' = calculate_daily_hours(dh_intervals)
    /\ dh_pc' = "return"
    /\ UNCHANGED <<slot_minutes, weekday, hours_dict, check_cross_midnight,
                   wh_pc, wh_ret, dh_intervals>>
    /\ UNCHANGED <<daily_start_hour, daily_end_hour, wt_pc, wt_ret>>
    /\ UNCHANGED <<grid_vars, scan_vars, model_vars, sched_vars>>

NextDailyHours == CallCalculateDailyHours

SpecDailyHours == InitDailyHours /\ [][NextDailyHours]_vars

(***************************************************************************)
(* Calendar: is_working_time_fast.  Here an instant is a number of seconds *)
(* since a Monday 00:00, a datetime without a time zone.                   *)
(***************************************************************************)

SecondsPerDay    == 86400
SecondsPerHour   == 3600
SecondsPerMinute == 60

\* dt.weekday(): 0 = Monday .. 6 = Sunday
WeekdayOf(dt) == (dt \div SecondsPerDay) % DaysPerWeek

\* dt.hour, dt.minute
HourOf(dt)   == (dt % SecondsPerDay) \div SecondsPerHour
MinuteOf(dt) == (dt % SecondsPerHour) \div SecondsPerMinute

\* start + timedelta(seconds=slot_idx * granularity)
SlotInstant(slot_idx, start, granularity) == start + slot_idx * granularity

is_working_time_sat(slot_idx, start, granularity, start_hour, end_hour) ==
    LET dt == SlotInstant(slot_idx, start, granularity)
    IN  IF WeekdayOf(dt) >= 6 THEN FALSE
        ELSE IF HourOf(dt) < start_hour \/ HourOf(dt) >= end_hour THEN FALSE
        ELSE TRUE

\* For a start that is not None.
is_working_time_fast(slot_idx, start, granularity, start_hour, end_hour) ==
    LET dt == SlotInstant(slot_idx, start, granularity)
    IN  IF WeekdayOf(dt) >= 5 THEN FALSE
        ELSE IF HourOf(dt) < start_hour \/ HourOf(dt) >= end_hour THEN FALSE
        ELSE TRUE

\* Inputs: project starts (Monday 00:00, Monday 08:30, Thursday 23:45),
\* granularities of half an hour and an hour, daily hours.
ProjectStarts ==
    {0,
     8 * SecondsPerHour + 30 * SecondsPerMinute,
     3 * SecondsPerDay + 23 * SecondsPerHour + 45 * SecondsPerMinute}

Granularities == {SecondsPerHour \div 2, SecondsPerHour}

DailyHours == {0, 9, 17, 24}

InitWorkingTime ==
    /\ ScanIdle
    /\ SchedIdle
    /\ date = 0
    /\ end_date = 0
    /\ size = 1
    /\ force_into_project = FALSE
    /\ date_from = "given"
    /\ ret_idx = 0
    /\ ret_from = "none"
    /\ ret_size = 0
    /\ elapsed = 0
    /\ slot_minutes = 0
    /\ weekday = 0
    /\ hours_dict = <<>>
    /\ check_cross_midnight = FALSE
    /\ wh_pc = "call"
    /\ wh_ret = FALSE
    /\ dh_intervals = <<>>
    /\ dh_pc = "call"
    /\ dh_ret = [num |-> 0, den |-> 1]
    /\ idx \in 0 .. MaxSlotIdx
    /\ start_date \in ProjectStarts
    /\ resolution \in Granularities
    /\ daily_start_hour \in DailyHours
    /\ daily_end_hour \in DailyHours
    /\ wt_pc = "call"
    /\ wt_ret = FALSE

\* wt_ret = is_working_time_fast(idx, start_date, resolution,
\*                               daily_start_hour, daily_end_hour)
CallIsWorkingTime ==
    /\ wt_pc = "call"
    /\ wt_ret' = is_working_time_fast(idx, start_date, resolution,
                                      daily_start_hour, daily_end_hour)
    /\ wt_pc' = "return"
    /\ UNCHANGED <<slot_minutes, weekday, hours_dict, check_cross_midnight,
                   wh_pc, wh_ret, dh_intervals, dh_pc, dh_ret,
                   daily_start_hour, daily_end_hour>>
    /\ UNCHANGED <<grid_vars, scan_vars, model_vars, sched_vars>>

NextWorkingTime == CallIsWorkingTime

SpecWorkingTime == InitWorkingTime /\ [][NextWorkingTime]_vars

(***************************************************************************)
(* Claims about the calendar                                               *)
(***************************************************************************)

MondayNightOnly == [d \in {0} |-> <<NightShift>>]

\* C6: with check_cross_midnight = TRUE and the template whose only interval
\* is Monday 22:00-06:00, the result is TRUE exactly for Monday 22:00-24:00
\* and Tuesday 00:00-06:00 and FALSE for every other (weekday, minute).
C6_MondayNightExact ==
    (wh_pc = "return" /\ check_cross_midnight /\ hours_dict = MondayNightOnly)
        => (wh_ret <=> (\/ (weekday = 0 /\ slot_minutes >= 22 * 60)
                        \/ (weekday = 1 /\ slot_minutes < 6 * 60)))

\* TRUE iff weekday wd declares an interval with end <= start whose end lies
\* after minute sm.
WrapsPast(hd, wd, sm) ==
    /\ wd \in DOMAIN hd
    /\ \E i \in 1 .. Len(hd[wd]) :
          /\ EndMinutes(hd[wd][i]) <= StartMinutes(hd[wd][i])
          /\ sm < EndMinutes(hd[wd][i])

\* C7: with check_cross_midnight = TRUE, if the previous weekday (Sunday for
\* Monday) has an interval with end <= start and the minute lies before its
\* end, the result is TRUE.
C7_PreviousDayWraps ==
    (/\ wh_pc = "return"
     /\ check_cross_midnight
     /\ WrapsPast(hours_dict, (weekday + DaysPerWeek - 1) % DaysPerWeek,
                  slot_minutes))
        => wh_ret

\* The template hd with weekday wd mapped to the empty interval list.
WithEmptyDay(hd, wd) ==
    [d \in DOMAIN hd \cup {wd} |-> IF d = wd THEN <<>> ELSE hd[d]]

\* The template hd without the weekdays outside days.
OnlyDays(hd, days) == [d \in DOMAIN hd \cap days |-> hd[d]]

\* C19: a weekday that is missing from hours_dict behaves like a weekday
\* mapped to the empty list, for every minute and both values of
\* check_cross_midnight: the result is FALSE when check_cross_midnight is
\* FALSE; when it is TRUE the result depends on nothing but the entry of
\* the previous weekday, and only an interval with end <= start of that
\* weekday whose end lies after the minute makes it TRUE.
C19_MissingDayIsEmptyDay ==
    (wh_pc = "return" /\ weekday \notin DOMAIN hours_dict)
        => LET prev == (weekday + DaysPerWeek - 1) % DaysPerWeek
           IN  /\ wh_ret = check_working_hours_fast(
                               slot_minutes, weekday,
                               WithEmptyDay(hours_dict, weekday),
                               check_cross_midnight)
               /\ ~check_cross_midnight => ~wh_ret
               /\ check_cross_midnight
                     => /\ wh_ret = check_working_hours_fast(
                                        slot_minutes, weekday,
                                        OnlyDays(hours_dict, {prev}), TRUE)
                        /\ wh_ret => WrapsPast(hours_dict, prev, slot_minutes)

\* Tuesday has no template, Monday has the night shift: Tuesday 05:59 is
\* working with check_cross_midnight = TRUE.
C19_Witness ==
    /\ wh_pc = "return"
    /\ weekday = 1
    /\ weekday \notin DOMAIN hours_dict
    /\ check_cross_midnight
    /\ slot_minutes = 5 * 60 + 59
    /\ wh_ret

\* The weekday wd declares an interval whose end equals its start.
HasEqualEnds(hd, wd) ==
    /\ wd \in DOMAIN hd
    /\ \E i \in 1 .. Len(hd[wd]) :
          EndMinutes(hd[wd][i]) = StartMinutes(hd[wd][i])

\* C23: an interval whose end equals its start (09:00-09:00, 00:00-00:00)
\* is treated as crossing midnight: every minute 0..1439 of its weekday is
\* reported as working.
C23_EqualEndsCoverTheDay ==
    (wh_pc = "return" /\ HasEqualEnds(hours_dict, weekday)) => wh_ret

\* A minute before 09:00 of a weekday whose only interval is 09:00-09:00
\* was reported as working without the check of the previous day.
C23_Witness ==
    /\ wh_pc = "return"
    /\ weekday \in DOMAIN hours_dict
    /\ hours_dict[weekday] = <<EmptySpan>>
    /\ ~check_cross_midnight
    /\ slot_minutes = 8 * 60 + 59
    /\ wh_ret

\* The number of minutes a list of intervals denotes, an interval with
\* end <= start counting as 1440 - start + end minutes.
WorkingMinutes(list) ==
    LET RECURSIVE Sum(_)
        Sum(i) ==
            IF i > Len(list) THEN 0
            ELSE Cardinality(Denoted(list[i])) + Sum(i + 1)
    IN  Sum(1)

\* C24: for every list of non-overlapping intervals,
\* 60 x calculate_daily_hours(intervals) is the number of working minutes
\* the intervals denote, an interval with end <= start counting as
\* 1440 - start + end minutes; the result is never negative.
C24_DailyHoursAreWorkingMinutes ==
    dh_pc = "return"
        => /\ MinutesPerHour * dh_ret.num = WorkingMinutes(dh_intervals) * dh_ret.den
           /\ dh_ret.num >= 0

\* The weekly template {Monday .. Friday: [start_hour:00 - end_hour:00]}.
OfficeHours(start_hour, end_hour) ==
    [d \in 0 .. 4 |-> <<<<<<start_hour, 0>>, <<end_hour, 0>>>>>>]

\* C29: for daily_start_hour < daily_end_hour, is_working_time_fast equals
\* check_working_hours_fast(minute of day, weekday, template, FALSE) at the
\* slot's instant with the template {Mon..Fri: [daily_start_hour:00 -
\* daily_end_hour:00]}: TRUE exactly on Monday-Friday for hours in
\* [daily_start_hour, daily_end_hour), FALSE on Saturday and Sunday.
C29_DefaultHoursAgreeWithTemplate ==
    (wt_pc = "return" /\ daily_start_hour < daily_end_hour)
        => LET dt == SlotInstant(idx, start_date, resolution)
           IN  /\ wt_ret = check_working_hours_fast(
                               HourOf(dt) * MinutesPerHour + MinuteOf(dt),
                               WeekdayOf(dt),
                               OfficeHours(daily_start_hour, daily_end_hour),
                               FALSE)
               /\ wt_ret <=> /\ WeekdayOf(dt) \in 0 .. 4
                             /\ daily_start_hour <= HourOf(dt)
                             /\ HourOf(dt) < daily_end_hour

\* The slot Friday 16:30 of a project with hours 09 - 17 was reported as
\* working.
C29_Witness ==
    /\ wt_pc = "return"
    /\ daily_start_hour = 9
    /\ daily_end_hour = 17
    /\ WeekdayOf(SlotInstant(idx, start_date, resolution)) = 4
    /\ HourOf(SlotInstant(idx, start_date, resolution)) = 16
    /\ MinuteOf(SlotInstant(idx, start_date, resolution)) = 30
    /\ wt_ret

(***************************************************************************)
(* Scoreboard scan: collect_intervals_fast                                 *)
(***************************************************************************)

None  == "None"
Cells == {None, "task"}

\* predicate(val): the two callables the allocator passes.
Predicate(p, val) == IF p = "is_free" THEN val = None ELSE val # None

\* start_date + timedelta(seconds=i * resolution)
SlotDate(sd, res, i) == sd + i * res

\* interval_class(start_dt, end_dt)
TimeInterval(start_dt, end_dt) == [start |-> start_dt, end |-> end_dt]

\* The outcome of a read outside the list's storage that ends the process.
Crash == "crash"

\* sb[idx] under boundscheck=False, wraparound=False: the element at idx for
\* 0 <= idx < len(sb); any other index is not checked and reads the memory
\* next to the list's storage.
Subscript(a, i) ==
    IF 0 <= i /\ i < Len(a.sb) THEN a.sb[i + 1] ELSE a.stray

\* if start < s_idx: start = s_idx
ClampStartAlways(start, request_start) == request_start

ClampStart(start, request_start) ==
    IF start < request_start THEN request_start ELSE start

\* current_idx = idx; if current_idx > e_idx: current_idx = e_idx
ClampEnd(current_idx, request_end) ==
    IF current_idx > request_end THEN request_end ELSE current_idx

\* intervals.append(interval)
EmitFirst(list, interval) == <<interval>> \o list

Emit(list, interval) == Append(list, interval)

\* One iteration of the while loop.  a: the arguments, st: the locals
\* idx, duration, start and the list built so far, with the indices read
\* and tested so far.
ScanStep(a, st) ==
    LET sb_len == Len(a.sb)
        val == IF st.idx < sb_len THEN Subscript(a, st.idx) ELSE None
        reads == IF st.idx < sb_len THEN st.reads \cup {st.idx} ELSE st.reads
        pred_result == IF st.idx < a.end_idx THEN Predicate(a.predicate, val)
                       ELSE FALSE
        tested == IF st.idx < a.end_idx THEN st.tested \cup {st.idx}
                  ELSE st.tested
        seen == [st EXCEPT !.reads = reads, !.tested = tested]
    IN  IF val = Crash
        THEN [st EXCEPT !.reads = reads, !.crashed = TRUE]
        ELSE IF pred_result
        THEN [seen EXCEPT !.start = IF st.start = 0 THEN st.idx ELSE st.start,
                          !.duration = st.duration + 1,
                          !.idx = st.idx + 1]
        ELSE IF st.duration > 0
             THEN LET start == ClampStart(st.start, a.s_idx)
                      current_idx == ClampEnd(st.idx, a.e_idx)
                      start_dt == SlotDate(a.start_date, a.resolution, start)
                      end_dt == SlotDate(a.start_date, a.resolution,
                                         current_idx)
                  IN  [seen EXCEPT
                         !.intervals =
                            IF st.duration >= a.min_duration_slots
                            THEN Emit(st.intervals,
                                      TimeInterval(start_dt, end_dt))
                            ELSE st.intervals,
                         !.duration = 0,
                         !.start = 0,
                         !.idx = st.idx + 1]
             ELSE [seen EXCEPT !.idx = st.idx + 1]

RECURSIVE ScanLoopExclusive(_, _)
ScanLoopExclusive(a, st) ==
    IF st.idx < a.end_idx /\ ~st.crashed
    THEN ScanLoopExclusive(a, ScanStep(a, st))
    ELSE st

RECURSIVE ScanLoop(_, _)
\* while idx <= end_idx: ...; the locals when the loop ends
ScanLoop(a, st) ==
    IF st.idx <= a.end_idx /\ ~st.crashed THEN ScanLoop(a, ScanStep(a, st))
    ELSE st

\* The locals at entry of the loop.
ScanEntry(a) ==
    [idx |-> a.start_idx, duration |-> 0, start |-> 0, intervals |-> <<>>,
     reads |-> {}, tested |-> {}, crashed |-> FALSE]

collect_intervals_any(a) ==
    ScanLoop([a EXCEPT !.min_duration_slots = 0], ScanEntry(a)).intervals

\* a: the record of the arguments sb, start_idx, end_idx, s_idx, e_idx,
\* min_duration_slots, start_date, resolution, predicate, and of what lies
\* next to the list in memory.  The value is the returned list.
collect_intervals_fast(a) ==
    ScanLoop(a, ScanEntry(a)).intervals

ScanArgs ==
    [sb |-> sb, start_idx |-> start_idx, end_idx |-> end_idx,
     s_idx |-> s_idx, e_idx |-> e_idx,
     min_duration_slots |-> min_duration_slots,
     start_date |-> start_date, resolution |-> resolution,
     predicate |-> predicate, stray |-> stray]

InitScan ==
    /\ HoursIdle
    /\ SchedIdle
    /\ date = 0
    /\ end_date = 0
    /\ size = 1
    /\ force_into_project = FALSE
    /\ idx = 0
    /\ date_from = "given"
    /\ ret_idx = 0
    /\ ret_from = "none"
    /\ ret_size = 0
    /\ elapsed = 0
    /\ start_date \in 0 .. 1
    /\ resolution \in 1 .. 2
    /\ sb \in UNION {[1 .. n -> Cells] : n \in 1 .. MaxSb}
    /\ start_idx \in 0 .. Len(sb)
    /\ s_idx \in start_idx .. Len(sb)
    /\ e_idx \in s_idx .. Len(sb)
    /\ end_idx \in e_idx .. Len(sb)
    /\ min_duration_slots \in 1 .. MaxMinDuration
    /\ predicate \in {"is_free", "is_booked"}
    /\ ci_pc = "call"
    /\ intervals = <<>>
    /\ stray = None
    /\ sb_reads = {}
    /\ pred_calls = {}

\* intervals = collect_intervals_fast(sb, start_idx, end_idx, s_idx, e_idx,
\*     min_duration_slots, size, start_date, resolution, predicate,
\*     interval_class)
CallCollectIntervals ==
    /\ ci_pc = "call"
    /\ LET final == ScanLoop(ScanArgs, ScanEntry(ScanArgs))
       IN  /\ sb_reads' = final.reads
           /\ pred_calls' = final.tested
           /\ ci_pc' = IF final.crashed THEN Crash ELSE "return"
           /\ intervals' = IF final.crashed THEN <<>>
                           ELSE collect_intervals_fast(ScanArgs)
    /\ UNCHANGED <<sb, start_idx, end_idx, s_idx, e_idx, min_duration_slots,
                   predicate, stray>>
    /\ UNCHANGED <<grid_vars, hours_vars, model_vars, sched_vars>>

NextScan == CallCollectIntervals

SpecScan == InitScan /\ [][NextScan]_vars

\* The function tests none of its index arguments: the calls with any scan
\* window start_idx <= end_idx and any requested window s_idx <= e_idx,
\* one slot beyond the list on either side included.
InitScanUnchecked ==
    /\ HoursIdle
    /\ SchedIdle
    /\ date = 0
    /\ end_date = 0
    /\ size = 1
    /\ force_into_project = FALSE
    /\ idx = 0
    /\ date_from = "given"
    /\ ret_idx = 0
    /\ ret_from = "none"
    /\ ret_size = 0
    /\ elapsed = 0
    /\ start_date = 1
    /\ resolution = 2
    /\ sb \in UNION {[1 .. n -> Cells] : n \in 1 .. MaxSb}
    /\ start_idx \in -1 .. (Len(sb) + 1)
    /\ end_idx \in start_idx .. (Len(sb) + 1)
    /\ s_idx \in -1 .. (Len(sb) + 1)
    /\ e_idx \in s_idx .. (Len(sb) + 1)
    /\ min_duration_slots \in 1 .. MaxMinDuration
    /\ predicate \in {"is_free", "is_booked"}
    /\ ci_pc = "call"
    /\ intervals = <<>>
    /\ stray \in IF start_idx < 0 THEN Cells \cup {Crash} ELSE {None}
    /\ sb_reads = {}
    /\ pred_calls = {}

SpecScanUnchecked == InitScanUnchecked /\ [][NextScan]_vars

(***************************************************************************)
(* Claims about the scoreboard scan                                        *)
(***************************************************************************)

\* Slot i satisfies the predicate (a slot beyond the list reads as None).
Matches(i) ==
    Predicate(predicate, IF i < Len(sb) THEN sb[i + 1] ELSE None)

\* [a, b) is a maximal run of matching slots of [s_idx, e_idx).
MaximalRun(a, b) ==
    /\ s_idx <= a /\ a < b /\ b <= e_idx
    /\ \A i \in a .. (b - 1) : Matches(i)
    /\ (a = s_idx \/ ~Matches(a - 1))
    /\ (b = e_idx \/ ~Matches(b))

\* The intervals of the maximal runs with at least min_duration_slots slots.
QualifyingRuns ==
    {TimeInterval(SlotDate(start_date, resolution, a),
                  SlotDate(start_date, resolution, b)) :
        <<a, b>> \in {r \in (0 .. Len(sb)) \X (0 .. Len(sb)) :
                       /\ MaximalRun(r[1], r[2])
                       /\ r[2] - r[1] >= min_duration_slots}}

Returned == {intervals[i] : i \in 1 .. Len(intervals)}

\* C4: when the scan window equals the requested window, the result holds
\* exactly one interval [a, b) per maximal run of matching slots of
\* [s_idx, e_idx) with at least min_duration_slots slots, also for a run
\* that begins at slot 0.
C4_ExactlyTheMaximalRuns ==
    (ci_pc = "return" /\ start_idx = s_idx /\ end_idx = e_idx)
        => /\ Returned = QualifyingRuns
           /\ Len(intervals) = Cardinality(QualifyingRuns)

\* C5: every returned interval [a, b) lies inside the requested window,
\* s_idx <= a <= b <= e_idx, whatever the (wider) scan window is.
C5_IntervalsInsideWindow ==
    ci_pc = "return"
        => \A i \in 1 .. Len(intervals) :
              /\ SlotDate(start_date, resolution, s_idx) <= intervals[i].start
              /\ intervals[i].start <= intervals[i].end
              /\ intervals[i].end <= SlotDate(start_date, resolution, e_idx)

\* [a, b) is a maximal run of matching slots of the scanned range
\* [start_idx, end_idx).
ScannedRun(a, b) ==
    /\ start_idx <= a /\ a < b /\ b <= end_idx
    /\ \A i \in a .. (b - 1) : Matches(i)
    /\ (a = start_idx \/ ~Matches(a - 1))
    /\ (b = end_idx \/ ~Matches(b))

ScannedRuns ==
    {r \in (0 .. Len(sb)) \X (0 .. Len(sb)) : ScannedRun(r[1], r[2])}

\* C18: the scan returns one interval for each maximal run of matching
\* slots of [start_idx, end_idx) that has at least min_duration_slots slots
\* and none for a shorter run.
C18_ShortRunsDiscarded ==
    ci_pc = "return"
        => Len(intervals)
             = Cardinality({r \in ScannedRuns :
                               r[2] - r[1] >= min_duration_slots})

\* A scan with min_duration_slots = 2 met a run of one slot and a run of
\* two or more slots and returned one interval.
C18_Witness ==
    /\ ci_pc = "return"
    /\ min_duration_slots = 2
    /\ \E r \in ScannedRuns : r[2] - r[1] = 1
    /\ \E r \in ScannedRuns : r[2] - r[1] >= 2
    /\ Len(intervals) = 1

\* The value the scan obtains for slot i: the list element, None for a slot
\* at or beyond len(sb).
ValueAt(i) == IF i < Len(sb) THEN Subscript(ScanArgs, i) ELSE None

\* The slots a list may be scanned over, one beyond it on either side.
ScanSlots == -1 .. (Len(sb) + 1)

\* Slot i lies in the returned interval iv = [a, b): a <= i < b.
Covers(iv, i) ==
    /\ iv.start <= SlotDate(start_date, resolution, i)
    /\ SlotDate(start_date, resolution, i) < iv.end

\* C22: every slot covered by a returned interval satisfies the predicate:
\* for each returned [a, b) and each slot i with a <= i < b,
\* predicate(sb[i]) is true, for every scoreboard content and every scan
\* and request window.
C22_CoveredSlotsMatch ==
    ci_pc = "return"
        => \A k \in 1 .. Len(intervals) : \A i \in ScanSlots :
              Covers(intervals[k], i) => Predicate(predicate, ValueAt(i))

\* A scan wider than the request returned an interval of two or more slots
\* that was cut at the request's start, and the slot before the cut matches.
C22_Witness ==
    /\ ci_pc = "return"
    /\ start_idx < s_idx
    /\ Predicate(predicate, ValueAt(s_idx - 1))
    /\ \E k \in 1 .. Len(intervals) :
          /\ intervals[k].start = SlotDate(start_date, resolution, s_idx)
          /\ Covers(intervals[k], s_idx + 1)

\* C25: every returned interval [a, b) still spans at least
\* min_duration_slots slots after it has been clamped to the requested
\* window [s_idx, e_idx]: b - a >= min_duration_slots.
C25_ClampedIntervalsKeepMinDuration ==
    ci_pc = "return"
        => \A k \in 1 .. Len(intervals) :
              intervals[k].end - intervals[k].start
                 >= min_duration_slots * resolution

\* The slots r .. end_idx - 1 are a run of matching slots that is still
\* open when the scan reaches end_idx, r being its first slot.
OpenAtEnd(r) ==
    /\ start_idx <= r /\ r < end_idx
    /\ \A i \in r .. (end_idx - 1) : Predicate(predicate, ValueAt(i))
    /\ (r = start_idx \/ ~Predicate(predicate, ValueAt(r - 1)))

MinOf(x, y) == IF x < y THEN x ELSE y

\* C26: no qualifying run is lost at the end of a scan: if the slots from
\* some index up to end_idx - 1 all satisfy the predicate and the run has at
\* least min_duration_slots slots, an interval for it is emitted, closed at
\* min(end_idx, e_idx); the slot at end_idx is never tested or included.
C26_RunOpenAtEndIsEmitted ==
    ci_pc = "return"
        => /\ \A r \in ScanSlots :
                 (OpenAtEnd(r) /\ end_idx - r >= min_duration_slots)
                    => /\ Len(intervals) >= 1
                       /\ intervals[Len(intervals)].end
                             = SlotDate(start_date, resolution,
                                        MinOf(end_idx, e_idx))
                       /\ intervals[Len(intervals)].start
                             >= SlotDate(start_date, resolution, r)
           /\ end_idx \notin pred_calls
           /\ \A k \in 1 .. Len(intervals) : ~Covers(intervals[k], end_idx)

\* A run of two matching slots was open when a scan that extends beyond the
\* request reached end_idx, the slot at end_idx matches too, and the
\* interval returned last is closed at e_idx.
C26_Witness ==
    /\ ci_pc = "return"
    /\ min_duration_slots = 2
    /\ OpenAtEnd(end_idx - 2)
    /\ e_idx < end_idx
    /\ s_idx < e_idx
    /\ Predicate(predicate, ValueAt(end_idx))
    /\ end_idx < Len(sb)
    /\ Len(intervals) >= 1
    /\ intervals[Len(intervals)].end = SlotDate(start_date, resolution, e_idx)

\* C27: the returned intervals are in ascending scan order and pairwise
\* non-overlapping: for two consecutive returned intervals [a1, b1) and
\* [a2, b2), b1 <= a2, for every scoreboard content and window.
C27_IntervalsAscendingDisjoint ==
    ci_pc = "return"
        => \A k \in 1 .. (Len(intervals) - 1) :
              /\ intervals[k].end <= intervals[k + 1].start
              /\ intervals[k].start <= intervals[k + 1].start

\* A scan wider than the request returned two intervals, the first cut at
\* the request's start and the second at its end.
C27_Witness ==
    /\ ci_pc = "return"
    /\ Len(intervals) = 2
    /\ start_idx < s_idx
    /\ e_idx < end_idx
    /\ Predicate(predicate, ValueAt(s_idx - 1))
    /\ Predicate(predicate, ValueAt(e_idx))
    /\ intervals[1].start = SlotDate(start_date, resolution, s_idx)
    /\ intervals[1].start < intervals[1].end
    /\ intervals[2].start < intervals[2].end
    /\ intervals[2].end = SlotDate(start_date, resolution, e_idx)

\* C28: the call reads the scoreboard list only at indices in
\* [0, len(sb)), for every scan window start_idx <= end_idx: a position at
\* or beyond len(sb) is presented to the predicate as None instead of being
\* read.
C28_ReadsInsideTheList ==
    ci_pc # "call" => sb_reads \subseteq 0 .. (Len(sb) - 1)

(***************************************************************************)
(* Time grid                                                               *)
(***************************************************************************)

\* _total_seconds(td): the timedelta as a double number of seconds.
TotalSeconds(td) == td

date_to_idx_fast_last(d, sd, res, sz, force) ==
    LET diff_seconds == TotalSeconds(d - sd)
        i == CastInt(diff_seconds, res)
    IN  IF force /\ i < 0 THEN 0
        ELSE IF force /\ i >= sz THEN sz
        ELSE i

date_to_idx_fast(d, sd, res, sz, force) ==
    LET diff_seconds == TotalSeconds(d - sd)
        i == CastInt(diff_seconds, res)
    IN  IF force /\ i < 0 THEN 0
        ELSE IF force /\ i >= sz THEN sz - 1
        ELSE i

idx_to_date_fast_clamp(i, sd, res, sz, force, ed) ==
    IF force /\ i < 0 THEN sd
    ELSE IF force /\ i >= sz - 1 THEN ed
    ELSE sd + i * res

idx_to_date_fast(i, sd, res, sz, force, ed) ==
    IF force /\ i < 0 THEN sd
    ELSE IF force /\ i >= sz THEN ed
    ELSE sd + i * res

project_date_to_idx(d, st, granularity) ==
    LET diff_seconds == d - st
    IN  CastInt(diff_seconds, granularity)

project_idx_to_date(i, st, granularity) ==
    LET seconds == i * granularity
    IN  st + seconds

\* size = <int>(diff_seconds / <double>granularity) + 1
scoreboard_size_ceil(st, en, granularity) ==
    LET diff_seconds == en - st
    IN  ((diff_seconds + granularity - 1) \div granularity) + 1

scoreboard_size(st, en, granularity) ==
    LET diff_seconds == en - st
    IN  CastInt(diff_seconds, granularity) + 1

Instants == (0 - MaxInstant) .. MaxInstant

InitGrid ==
    /\ HoursIdle
    /\ ScanIdle
    /\ SchedIdle
    /\ date \in Instants
    /\ start_date \in 0 .. 1
    /\ end_date \in start_date .. MaxInstant
    /\ resolution \in 1 .. MaxResolution
    /\ size \in 1 .. MaxSize
    /\ force_into_project \in BOOLEAN
    /\ idx \in -1 .. MaxSize
    /\ date_from = "given"
    /\ ret_idx = 0
    /\ ret_from = "none"
    /\ ret_size = 0
    /\ elapsed = 0

\* date_to_idx_fast(date, start_date, resolution, size, force_into_project)
CallDateToIdxFast ==
    /\ ret_from = "none"
    /\ ret_idx' = date_to_idx_fast(date, start_date, resolution, size,
                                   force_into_project)
    /\ ret_from' = "date_to_idx_fast"
    /\ UNCHANGED <<date, start_date, end_date, resolution, size,
                   force_into_project, idx, date_from, ret_size, elapsed>>
    /\ UNCHANGED <<hours_vars, scan_vars, model_vars, sched_vars>>

\* project_date_to_idx(date, start_date, resolution)
CallProjectDateToIdx ==
    /\ ret_from = "none"
    /\ ret_idx' = project_date_to_idx(date, start_date, resolution)
    /\ ret_from' = "project_date_to_idx"
    /\ UNCHANGED <<date, start_date, end_date, resolution, size,
                   force_into_project, idx, date_from, ret_size, elapsed>>
    /\ UNCHANGED <<hours_vars, scan_vars, model_vars, sched_vars>>

\* date = idx_to_date_fast(idx, start_date, resolution, size,
\*                         force_into_project, end_date)
CallIdxToDateFast ==
    /\ date_from = "given"
    /\ ret_from = "none"
    /\ date' = idx_to_date_fast(idx, start_date, resolution, size,
                                force_into_project, end_date)
    /\ date_from' = "idx_to_date_fast"
    /\ UNCHANGED <<start_date, end_date, resolution, size,
                   force_into_project, idx, ret_idx, ret_from, ret_size,
                   elapsed>>
    /\ UNCHANGED <<hours_vars, scan_vars, model_vars, sched_vars>>

\* date = project_idx_to_date(idx, start_date, resolution)
CallProjectIdxToDate ==
    /\ date_from = "given"
    /\ ret_from = "none"
    /\ date' = project_idx_to_date(idx, start_date, resolution)
    /\ date_from' = "project_idx_to_date"
    /\ UNCHANGED <<start_date, end_date, resolution, size,
                   force_into_project, idx, ret_idx, ret_from, ret_size,
                   elapsed>>
    /\ UNCHANGED <<hours_vars, scan_vars, model_vars, sched_vars>>

\* ret_size = scoreboard_size(start_date, end_date, resolution)
CallScoreboardSize ==
    /\ date_from = "given"
    /\ ret_from = "none"
    /\ ret_size' = scoreboard_size(start_date, end_date, resolution)
    /\ ret_from' = "scoreboard_size"
    /\ UNCHANGED <<date, start_date, end_date, resolution, size,
                   force_into_project, idx, date_from, ret_idx, elapsed>>
    /\ UNCHANGED <<hours_vars, scan_vars, model_vars, sched_vars>>

NextGrid ==
    \/ CallScoreboardSize
    \/ CallDateToIdxFast
    \/ CallProjectDateToIdx
    \/ CallIdxToDateFast
    \/ CallProjectIdxToDate

SpecGrid == InitGrid /\ [][NextGrid]_vars

(***************************************************************************)
(* Claims about the time grid                                              *)
(***************************************************************************)

\* floor(a / b) for b > 0, rounding toward negative infinity.
FloorDiv(a, b) == a \div b

\* C8: for every instant and positive resolution, date_to_idx_fast without
\* clamping and project_date_to_idx both return
\* floor((t - project_start) / resolution), also for instants before
\* project_start, where the index is negative.
C8_IndexIsFloor ==
    (\/ ret_from = "project_date_to_idx"
     \/ (ret_from = "date_to_idx_fast" /\ ~force_into_project))
        => ret_idx = FloorDiv(date - start_date, resolution)

\* C9: with force_into_project = TRUE date_to_idx_fast returns an index in
\* [0, size): 0 for an instant before the start, size - 1 for an instant at
\* or beyond slot `size`, and the unclamped index of an in-range instant.
C9_ClampedIndexInRange ==
    (ret_from = "date_to_idx_fast" /\ force_into_project)
        => /\ ret_idx \in 0 .. (size - 1)
           /\ (date < start_date => ret_idx = 0)
           /\ (date >= start_date + size * resolution => ret_idx = size - 1)
           /\ ((start_date <= date /\ date < start_date + size * resolution)
                  => ret_idx = FloorDiv(date - start_date, resolution))

\* A clamped call on an instant beyond the last slot and one on an instant
\* before the start have both returned.
C9_Witness ==
    /\ ret_from = "date_to_idx_fast"
    /\ force_into_project
    /\ size > 1
    /\ date >= start_date + size * resolution
    /\ ret_idx = size - 1

\* C10: index -> instant -> index is the identity on [0, size), for the
\* scoreboard pair (clamping on or off) and for the project pair.
C10_RoundTrip ==
    idx \in 0 .. (size - 1)
        => /\ (date_from = "idx_to_date_fast" /\ ret_from = "date_to_idx_fast")
                => ret_idx = idx
           /\ (date_from = "project_idx_to_date" /\ ret_from = "project_date_to_idx")
                => ret_idx = idx

\* The last index of a scoreboard with several slots went through
\* idx_to_date_fast and back through date_to_idx_fast with clamping on.
C10_Witness ==
    /\ date_from = "idx_to_date_fast"
    /\ ret_from = "date_to_idx_fast"
    /\ force_into_project
    /\ size > 1
    /\ idx = size - 1
    /\ ret_idx = idx

\* ceil(a / b) for a >= 0 and b > 0
CeilDiv(a, b) == (a + b - 1) \div b

\* C11: for every end >= start, scoreboard_size(start, end, granularity) is
\* ceil((end - start) / granularity) + 1, also when the span is not a whole
\* multiple of the granularity.
C11_SizeIsCeilPlusOne ==
    ret_from = "scoreboard_size"
        => ret_size = CeilDiv(end_date - start_date, resolution) + 1

\* C30: with force_into_project = TRUE and size = scoreboard_size(start_date,
\* end_date, resolution), idx_to_date_fast returns an instant in
\* [start_date, end_date] for every idx: start_date for idx < 0, end_date
\* for idx >= size, and start_date + idx * resolution, which does not exceed
\* end_date, for 0 <= idx < size.
C30_ClampedInstantInProject ==
    (/\ date_from = "idx_to_date_fast"
     /\ force_into_project
     /\ size = scoreboard_size(start_date, end_date, resolution))
        => /\ start_date <= date /\ date <= end_date
           /\ idx < 0 => date = start_date
           /\ idx >= size => date = end_date
           /\ (0 <= idx /\ idx < size)
                 => date = start_date + idx * resolution

\* The last index of a project whose span is not a whole number of slots
\* was converted: the instant lies before end_date.
C30_Witness ==
    /\ date_from = "idx_to_date_fast"
    /\ force_into_project
    /\ size = scoreboard_size(start_date, end_date, resolution)
    /\ size >= 2
    /\ idx = size - 1
    /\ (end_date - start_date) % resolution # 0
    /\ date = start_date + idx * resolution
    /\ date < end_date

\* The resolution divides a day into a whole number of slots.
DividesDay(res) == GridDay % res = 0

\* C21: the time grid fails with InvalidTime when the resolution does not
\* divide a day evenly: for such a resolution no call returns an index, an
\* instant or a scoreboard size as an ordinary value.
C21_UnevenResolutionRejected ==
    ~DividesDay(resolution)
        => /\ ret_from = "none"
           /\ date_from = "given"

(***************************************************************************)
(* Time grid in the arithmetic of doubles.  The conversion functions hold   *)
(* the elapsed time in a C double: _total_seconds and total_seconds()       *)
(* convert the timedelta, the quotient by the resolution is a double, and   *)
(* <int> discards its fraction.  A double is a rational num / den rounded   *)
(* to MantissaBits significant bits, ties to even; a timedelta is a count   *)
(* of ticks.  Elapsed times are non-negative and their whole seconds are    *)
(* below 2^MantissaBits, so that every whole number of seconds is exact.    *)
(***************************************************************************)

RECURSIVE Pow2(_)
Pow2(k) == IF k = 0 THEN 1 ELSE 2 * Pow2(k - 1)

\* n / d rounded to the nearest integer, ties to the even one
RoundHalfEven(n, d) ==
    LET q == n \div d
        r == n % d
    IN  IF 2 * r > d \/ (2 * r = d /\ q % 2 = 1) THEN q + 1 ELSE q

RECURSIVE ShiftUp(_, _, _)
\* the least k >= sh with n * 2^k / d >= 2^(MantissaBits - 1)
ShiftUp(n, d, sh) ==
    IF n * Pow2(sh) >= Pow2(MantissaBits - 1) * d THEN sh
    ELSE ShiftUp(n, d, sh + 1)

RECURSIVE ShiftDown(_, _, _)
\* the least k >= sh with n / (d * 2^k) < 2^MantissaBits
ShiftDown(n, d, sh) ==
    IF n < Pow2(MantissaBits) * d * Pow2(sh) THEN sh
    ELSE ShiftDown(n, d, sh + 1)

\* The double nearest to n / d, for n >= 0 and d > 0.
Double(n, d) ==
    IF n = 0 THEN [num |-> 0, den |-> 1]
    ELSE IF n >= Pow2(MantissaBits) * d
         THEN LET k == ShiftDown(n, d, 0)
              IN  [num |-> RoundHalfEven(n, d * Pow2(k)) * Pow2(k), den |-> 1]
         ELSE LET k == ShiftUp(n, d, 0)
              IN  [num |-> RoundHalfEven(n * Pow2(k), d), den |-> Pow2(k)]

\* a + b and a / b on doubles: the exact result, rounded
DoubleAdd(a, b) == Double(a.num * b.den + b.num * a.den, a.den * b.den)
DoubleDiv(a, b) == Double(a.num * b.den, a.den * b.num)

\* <int>x for a double x >= 0
IntOfDouble(x) == x.num \div x.den

\* _total_seconds(td): days * 86400.0 + seconds + microseconds / 1000000.0,
\* with days * 86400 + seconds the whole seconds of td
TotalSecondsDouble(td) ==
    DoubleAdd(Double(td \div TicksPerSecond, 1),
              DoubleDiv(Double(td % TicksPerSecond, 1),
                        Double(TicksPerSecond, 1)))

\* td.total_seconds() of Python: the ticks divided by the ticks per second
PyTotalSeconds(td) == Double(td, TicksPerSecond)

\* date_to_idx_fast without clamping, on td = date - start_date
DoubleDateToIdxFast(td, res) ==
    LET diff_seconds == TotalSecondsDouble(td)
    IN  IntOfDouble(DoubleDiv(diff_seconds, Double(res, 1)))

\* project_date_to_idx on td = date - start
DoubleProjectDateToIdx(td, granularity) ==
    LET diff_seconds == PyTotalSeconds(td)
    IN  IntOfDouble(DoubleDiv(diff_seconds, Double(granularity, 1)))

\* scoreboard_size on td = end - start
DoubleScoreboardSize(td, granularity) ==
    LET diff_seconds == PyTotalSeconds(td)
    IN  IntOfDouble(DoubleDiv(diff_seconds, Double(granularity, 1))) + 1

ElapsedTicks == 0 .. (Pow2(MantissaBits) * TicksPerSecond - 1)

InitDouble ==
    /\ HoursIdle
    /\ ScanIdle
    /\ SchedIdle
    /\ date = 0
    /\ start_date = 0
    /\ end_date = 0
    /\ size = 1
    /\ force_into_project = FALSE
    /\ idx = 0
    /\ date_from = "given"
    /\ ret_idx = 0
    /\ ret_from = "none"
    /\ ret_size = 0
    /\ elapsed \in ElapsedTicks
    /\ resolution \in 1 .. MaxResolution

CallDoubleDateToIdxFast ==
    /\ ret_from = "none"
    /\ ret_idx' = DoubleDateToIdxFast(elapsed, resolution)
    /\ ret_from' = "date_to_idx_fast"
    /\ UNCHANGED <<date, start_date, end_date, resolution, size,
                   force_into_project, idx, date_from, ret_size, elapsed>>
    /\ UNCHANGED <<hours_vars, scan_vars, model_vars, sched_vars>>

CallDoubleProjectDateToIdx ==
    /\ ret_from = "none"
    /\ ret_idx' = DoubleProjectDateToIdx(elapsed, resolution)
    /\ ret_from' = "project_date_to_idx"
    /\ UNCHANGED <<date, start_date, end_date, resolution, size,
                   force_into_project, idx, date_from, ret_size, elapsed>>
    /\ UNCHANGED <<hours_vars, scan_vars, model_vars, sched_vars>>

CallDoubleScoreboardSize ==
    /\ ret_from = "none"
    /\ ret_size' = DoubleScoreboardSize(elapsed, resolution)
    /\ ret_from' = "scoreboard_size"
    /\ UNCHANGED <<date, start_date, end_date, resolution, size,
                   force_into_project, idx, date_from, ret_idx, elapsed>>
    /\ UNCHANGED <<hours_vars, scan_vars, model_vars, sched_vars>>

NextDouble ==
    \/ CallDoubleDateToIdxFast
    \/ CallDoubleProjectDateToIdx
    \/ CallDoubleScoreboardSize

SpecDouble == InitDouble /\ [][NextDouble]_vars

\* C20: the slot index and the scoreboard size are what integer arithmetic
\* on the ticks gives, elapsed div (ticks per slot): no rounding of an
\* intermediate value changes them, for any elapsed time and resolution.
C20_NoRoundingDrift ==
    LET exact == elapsed \div (TicksPerSecond * resolution)
    IN  /\ ret_from \in {"date_to_idx_fast", "project_date_to_idx"}
              => ret_idx = exact
        /\ ret_from = "scoreboard_size" => ret_size = exact + 1

(***************************************************************************)
(* Scheduler: task state machine, allocator, constraint engine and         *)
(* fixed-point driver (spec sections 3, 4.2 - 4.8 and 5).  Tasks are       *)
(* effort-driven leaves with one allocated resource of efficiency 1.       *)
(***************************************************************************)

Tasks     == {1, 2, 3, 4}    \* leaf tasks, numbered in declaration order
Children  == {1, 2, 3}       \* the leaves of the container task
Resources == {1, 2}
Slots     == 0 .. (NSlots - 1)

\* Scoreboard cells: Free, OffDuty, or the task that holds Booked status.
Free      == 0
OffDuty   == -1
Booked(t) == t

\* max_gap of an edge that has none
NoMax == -1

SetMin(S) == CHOOSE x \in S : \A y \in S : x <= y
SetMax(S) == CHOOSE x \in S : \A y \in S : x >= y

\* a container resource without daily_max
NoLimit == -1

\* the calendar day of a slot
DayOf(s) == s \div DayLen

\* ---- calendar (4.2): weekly template minus vacations minus leaves
\* The shift works every slot of a day but its last one.
InShift(s) == s % DayLen < DayLen - 1

Calendar(vacation_days, leaves) ==
    [r \in Resources |->
        {s \in Slots : /\ InShift(s)
                       /\ (s \div DayLen) \notin vacation_days
                       /\ s \notin leaves[r]}]

\* ---- dependency graph (4.4)
InEdges(t)  == {e \in edges : e.target = t}
OutEdges(t) == {e \in edges : e.source = t}

\* The tasks whose placement t's bound is computed from: its predecessors
\* when scheduling forward, its successors when scheduling backward.
Anchors(t) ==
    IF scheduling = "asap" THEN {e.source : e \in InEdges(t)}
    ELSE {e.target : e \in OutEdges(t)}

AnchorsPlaced(t) == \A a \in Anchors(t) : status[a] = "Placed"

\* ---- visit order (5): priority desc, topological order asc (the reverse
\* order when scheduling backward), declaration order asc.  Edges lead from
\* an earlier to a later declared task, so the declaration order is a
\* topological order.
BeforeByStart(a, b) ==
    \/ scheduled_start[a] < scheduled_start[b]
    \/ (scheduled_start[a] = scheduled_start[b] /\ a < b)

Before(a, b) ==
    \/ tasks[a].priority > tasks[b].priority
    \/ /\ tasks[a].priority = tasks[b].priority
       /\ IF scheduling = "asap" THEN a < b ELSE a > b

Rank(t) == 1 + Cardinality({u \in Tasks : Before(u, t)})

TaskAt(c) == CHOOSE t \in Tasks : Rank(t) = c

\* ---- constraint engine (4.7)
\* lb = max over deps of (source_end + gap)
LowerBoundNoGap(t) ==
    SetMax({0} \cup {scheduled_end[e.source] : e \in InEdges(t)})

LowerBound(t) ==
    SetMax({0} \cup {scheduled_end[e.source] + e.gap : e \in InEdges(t)})

\* ub = min over successors of (target_start - gap), else project_end
UpperBound(t) ==
    SetMin({NSlots} \cup {scheduled_start[e.target] - e.gap : e \in OutEdges(t)})

\* The upper pressure of max_gap: target.start <= source.end + max_gap, for
\* a placement of t that starts at slot first and ends after slot last.
MaxGapOk(t, first, last) ==
    IF scheduling = "asap"
    THEN \A e \in InEdges(t) :
            e.max_gap # NoMax => first <= scheduled_end[e.source] + e.max_gap
    ELSE \A e \in OutEdges(t) :
            e.max_gap # NoMax
                => scheduled_start[e.target] <= last + 1 + e.max_gap

Window(t) ==
    IF scheduling = "asap" THEN LowerBound(t) .. (NSlots - 1)
    ELSE 0 .. (UpperBound(t) - 1)

\* ---- allocator (4.6)
\* The scoreboard query predicate: slot is Free AND working.
FreeOrOffDuty(r, s) == scoreboard[r][s] \in {Free, OffDuty}

FreeAndWorking(r, s) == scoreboard[r][s] = Free /\ s \in working[r]

\* Preemption: a slot Booked by a lower-priority task can be taken.
NeverEvictable(t, r, s) == FALSE

Evictable(t, r, s) ==
    /\ scoreboard[r][s] \in Tasks
    /\ tasks[scoreboard[r][s]].priority < tasks[t].priority

Candidates(t) ==
    {s \in Window(t) : \/ FreeAndWorking(tasks[t].resource, s)
                       \/ Evictable(t, tasks[t].resource, s)}

\* demand_slots = ceil(effort / efficiency), efficiency 1
DemandSlots(t) == tasks[t].effort

\* The number of slots of day d booked on the resources of the container by
\* the tasks outside `excluding`.
BookedInDay(d, excluding) ==
    Cardinality({p \in (Tasks \ excluding) \X Slots :
                    p[2] \in bookings[p[1]] /\ DayOf(p[2]) = d})

\* The holders of the slots in `taken` that t takes over.
Holders(t, taken) ==
    {scoreboard[tasks[t].resource][x] : x \in taken} \cap Tasks

\* Step 7: the window count of the day of s, with the slots accumulated so
\* far and without the bookings they evict, is below the cap.
QuotaIgnored(t, s, taken) == TRUE

QuotaOk(t, s, taken) ==
    \/ daily_max = NoLimit
    \/ BookedInDay(DayOf(s), Holders(t, taken \cup {s}))
          + Cardinality({x \in taken : DayOf(x) = DayOf(s)}) < daily_max

\* One step of the scan (forward for ASAP, backward for ALAP): the next
\* slot is accumulated unless the cap of its day is reached.
AccumulateStep(t, todo, taken) ==
    LET s == IF scheduling = "asap" THEN SetMin(todo) ELSE SetMax(todo)
    IN  [todo |-> todo \ {s},
         taken |-> IF QuotaOk(t, s, taken) THEN taken \cup {s} ELSE taken]

RECURSIVE Accumulate(_, _, _)
\* Accumulate slots in scan order until demand_slots are gathered.  (The
\* result of a step is bound to a value before the scan goes on.)
Accumulate(t, todo, taken) ==
    IF todo = {} \/ Cardinality(taken) = DemandSlots(t) THEN taken
    ELSE CHOOSE result \in {Accumulate(t, step.todo, step.taken) :
                               step \in {AccumulateStep(t, todo, taken)}} :
            TRUE

Chosen(t) == Accumulate(t, Candidates(t), {})

CanPlace(t) ==
    /\ Cardinality(Chosen(t)) = DemandSlots(t)
    /\ MaxGapOk(t, SetMin(Chosen(t)), SetMax(Chosen(t)))

\* The lower-priority tasks that lose a slot to t.
NoneEvicted(t) == {}

Evicted(t) ==
    {u \in Tasks \ {t} : /\ tasks[u].resource = tasks[t].resource
                         /\ bookings[u] \cap Chosen(t) # {}}

\* A placed task still lies within the bounds its anchors give it.
WithinBounds(t) ==
    /\ IF scheduling = "asap" THEN scheduled_start[t] >= LowerBound(t)
       ELSE scheduled_end[t] <= UpperBound(t)
    /\ MaxGapOk(t, scheduled_start[t], scheduled_end[t] - 1)

\* The scoreboard with the slots of the tasks in `gone` set Free and the
\* slots `taken` Booked by t.
Rebooked(gone, t, taken) ==
    [r \in Resources |->
        [s \in Slots |->
            IF r = tasks[t].resource /\ s \in taken THEN Booked(t)
            ELSE IF scoreboard[r][s] \in gone THEN Free
            ELSE scoreboard[r][s]]]

\* ---- container task (4.4): the container spans its placed children,
\* from the earliest start to the latest end.
ContainerStartFirst(st, starts) == starts[SetMin(Children)]

ContainerStart(st, starts) ==
    SetMin({starts[c] : c \in {x \in Children : st[x] = "Placed"}})

ContainerEnd(st, ends) ==
    SetMax({ends[c] : c \in {x \in Children : st[x] = "Placed"}})

\* ---- inputs
Efforts == {<<1, 1, 1, 1>>, <<2, 1, 1, 1>>, <<1, 2, 1, 2>>, <<2, 2, 2, 2>>}

Priorities == {<<100, 100, 100, 100>>, <<100, 1000, 100, 100>>,
               <<1000, 100, 100, 100>>}

Allocations == {<<1, 1, 1, 1>>, <<1, 2, 2, 2>>, <<2, 1, 2, 2>>,
                <<1, 1, 2, 2>>}

\* <<source, target>> pairs
EdgeShapes == {{}, {<<1, 2>>}, {<<1, 2>>, <<3, 4>>}, {<<1, 2>>, <<2, 3>>}}

\* <<gap, max_gap>> pairs
Gaps == {<<0, NoMax>>, <<1, NoMax>>, <<0, 0>>, <<1, 1>>}

DailyMaxes == {NoLimit, 2}

InitSched ==
    /\ GridIdle
    /\ HoursIdle
    /\ ScanIdle
    /\ \E effort \in Efforts, priority \in Priorities,
          resource \in Allocations :
          tasks = [t \in Tasks |-> [effort |-> effort[t],
                                    priority |-> priority[t],
                                    resource |-> resource[t]]]
    /\ \E shape \in EdgeShapes, g \in Gaps :
          edges = {[source |-> p[1], target |-> p[2], gap |-> g[1],
                    max_gap |-> g[2]] : p \in shape}
    /\ scheduling \in {"asap", "alap"}
    /\ \E vacation_days \in {{}, {1}} :
          working = Calendar(vacation_days, [r \in Resources |->
                                               IF r = 2 THEN {0} ELSE {}])
    /\ daily_max \in DailyMaxes
    /\ status = [t \in Tasks |-> "Unscheduled"]
    /\ bookings = [t \in Tasks |-> {}]
    /\ scoreboard = [r \in Resources |->
                        [s \in Slots |-> IF s \in working[r] THEN Free
                                         ELSE OffDuty]]
    /\ scheduled_start = [t \in Tasks |-> 0]
    /\ scheduled_end = [t \in Tasks |-> 0]
    /\ round = 1
    /\ cursor = 1
    /\ changed = FALSE
    /\ container_start = 0
    /\ container_end = 0
    /\ visited = <<>>
    /\ first_visit = <<>>
    /\ phase = "running"

Visiting == phase = "running" /\ cursor <= Cardinality(Tasks)

\* The round is over: every task was visited.
RoundClosed == phase = "running" /\ cursor > Cardinality(Tasks)

\* ---- the guards of the driver's steps on the visited task t
MakeReadyGuard ==
    /\ Visiting
    /\ \E t \in {TaskAt(cursor)} :
          status[t] = "Unscheduled" /\ AnchorsPlaced(t)

PlaceGuard ==
    /\ Visiting
    /\ \E t \in {TaskAt(cursor)} :
          status[t] = "Ready" /\ AnchorsPlaced(t) /\ CanPlace(t)

FailGuard ==
    /\ Visiting
    /\ \E t \in {TaskAt(cursor)} :
          status[t] = "Ready" /\ AnchorsPlaced(t) /\ ~CanPlace(t)

ReleaseGuard ==
    /\ Visiting
    /\ \E t \in {TaskAt(cursor)} :
          status[t] = "Placed" /\ AnchorsPlaced(t) /\ ~WithinBounds(t)

SkipGuard ==
    /\ Visiting
    /\ \E t \in {TaskAt(cursor)} :
          \/ ~AnchorsPlaced(t)
          \/ (status[t] = "Placed" /\ WithinBounds(t))

ConvergeAnyway == RoundClosed

ConvergeGuard == RoundClosed /\ ~changed

ReenterAlways == RoundClosed

NextRoundGuard == RoundClosed /\ changed

\* Unscheduled -> Ready: all hard predecessors are Placed.
MakeReady ==
    /\ MakeReadyGuard
    /\ status' = [status EXCEPT ![TaskAt(cursor)] = "Ready"]
    /\ changed' = TRUE
    /\ UNCHANGED <<bookings, scoreboard, scheduled_start, scheduled_end,
                   round, cursor, phase>>
    /\ UNCHANGED <<visited, first_visit>>
    /\ UNCHANGED <<container_start, container_end>>
    /\ UNCHANGED <<grid_vars, hours_vars, scan_vars, model_vars>>

\* Ready -> Placed: the allocator found a satisfying booking; the tasks it
\* evicted go back to Ready with their bookings released.
Place ==
    /\ PlaceGuard
    /\ \E t \in {TaskAt(cursor)} : \E taken \in {Chosen(t)}, gone \in {Evicted(t)} :
           /\ status' = [u \in Tasks |->
                           IF u = t THEN "Placed"
                           ELSE IF u \in gone THEN "Ready"
                           ELSE status[u]]
           /\ bookings' = [u \in Tasks |->
                             IF u = t THEN taken
                             ELSE IF u \in gone THEN {}
                             ELSE bookings[u]]
           /\ scoreboard' = Rebooked(gone, t, taken)
           /\ scheduled_start' = [scheduled_start EXCEPT ![t] = SetMin(taken)]
           /\ scheduled_end' = [scheduled_end EXCEPT ![t] = SetMax(taken) + 1]
           /\ IF t \in Children
              THEN /\ container_start' = ContainerStart(status', scheduled_start')
                   /\ container_end' = ContainerEnd(status', scheduled_end')
              ELSE UNCHANGED <<container_start, container_end>>
    /\ changed' = TRUE
    /\ cursor' = cursor + 1
    /\ visited' = Append(visited, TaskAt(cursor))
    /\ UNCHANGED first_visit
    /\ UNCHANGED <<round, phase>>
    /\ UNCHANGED <<grid_vars, hours_vars, scan_vars, model_vars>>

\* Ready -> Failed: no resource can supply the demand within the bounds;
\* the scheduler stops.
Fail ==
    /\ FailGuard
    /\ status' = [status EXCEPT ![TaskAt(cursor)] = "Failed"]
    /\ phase' = "failed"
    /\ UNCHANGED <<bookings, scoreboard, scheduled_start, scheduled_end,
                   round, cursor, changed>>
    /\ UNCHANGED <<visited, first_visit>>
    /\ UNCHANGED <<container_start, container_end>>
    /\ UNCHANGED <<grid_vars, hours_vars, scan_vars, model_vars>>

\* Placed -> Ready: the task's bound moved; its bookings are released and
\* it is re-queued.
Release ==
    /\ ReleaseGuard
    /\ \E t \in {TaskAt(cursor)} :
           /\ status' = [status EXCEPT ![t] = "Ready"]
           /\ bookings' = [bookings EXCEPT ![t] = {}]
           /\ scoreboard' = Rebooked({t}, t, {})
    /\ changed' = TRUE
    /\ cursor' = cursor + 1
    /\ UNCHANGED <<scheduled_start, scheduled_end, round, phase>>
    /\ visited' = Append(visited, TaskAt(cursor))
    /\ UNCHANGED first_visit
    /\ UNCHANGED <<container_start, container_end>>
    /\ UNCHANGED <<grid_vars, hours_vars, scan_vars, model_vars>>

\* Nothing to do for the visited task in this round.
Skip ==
    /\ SkipGuard
    /\ cursor' = cursor + 1
    /\ UNCHANGED <<status, bookings, scoreboard, scheduled_start,
                   scheduled_end, round, changed, phase>>
    /\ visited' = Append(visited, TaskAt(cursor))
    /\ UNCHANGED first_visit
    /\ UNCHANGED <<container_start, container_end>>
    /\ UNCHANGED <<grid_vars, hours_vars, scan_vars, model_vars>>

\* The round closed with no change anywhere: Placed -> Frozen, emit.
Converge ==
    /\ ConvergeGuard
    /\ status' = [t \in Tasks |-> IF status[t] = "Placed" THEN "Frozen"
                                  ELSE status[t]]
    /\ phase' = "emitted"
    /\ UNCHANGED <<bookings, scoreboard, scheduled_start, scheduled_end,
                   round, cursor, changed>>
    /\ UNCHANGED <<visited, first_visit>>
    /\ UNCHANGED <<container_start, container_end>>
    /\ UNCHANGED <<grid_vars, hours_vars, scan_vars, model_vars>>

\* the hard cap of the driver: 2 x |tasks| rounds
RoundCap == 2 * Cardinality(Tasks)

\* Some task transitioned: re-enter, up to the cap of 2 x |tasks| rounds.
NextRound ==
    /\ NextRoundGuard
    /\ IF round >= RoundCap
       THEN /\ phase' = "nonconvergent"
            /\ UNCHANGED <<round, cursor, changed, visited, first_visit>>
       ELSE /\ round' = round + 1
            /\ cursor' = 1
            /\ changed' = FALSE
            /\ first_visit' = IF round = 1 THEN visited ELSE first_visit
            /\ visited' = <<>>
            /\ UNCHANGED phase
    /\ UNCHANGED <<status, bookings, scoreboard, scheduled_start,
                   scheduled_end>>
    /\ UNCHANGED <<container_start, container_end>>
    /\ UNCHANGED <<grid_vars, hours_vars, scan_vars, model_vars>>

NextSched ==
    \/ MakeReady
    \/ Place
    \/ Fail
    \/ Release
    \/ Skip
    \/ Converge
    \/ NextRound

SpecSched == InitSched /\ [][NextSched]_vars

\* The driver is a sequential loop: it always takes its next step.
SpecSchedLive == InitSched /\ [][NextSched]_vars /\ WF_vars(NextSched)

(***************************************************************************)
(* Claims about the scheduler                                              *)
(***************************************************************************)

SameResource(t, u) == tasks[t].resource = tasks[u].resource

\* C1: in every reachable state of the scheduler (after any sequence of
\* placements, evictions and re-placements) no (resource, slot) pair is
\* Booked by two different tasks.
C1_NoDoubleBooking ==
    \A t \in Tasks, u \in Tasks :
        (t # u /\ SameResource(t, u)) => bookings[t] \cap bookings[u] = {}

\* A higher-priority task holds a slot that a lower-priority task was
\* evicted from; the evicted task waits to be placed again.
C1_Witness ==
    \E t \in Tasks, u \in Tasks :
        /\ tasks[t].priority > tasks[u].priority
        /\ SameResource(t, u)
        /\ status[t] = "Placed"
        /\ status[u] = "Ready"
        /\ scheduled_end[u] > 0
        /\ bookings[u] = {}
        /\ scheduled_start[u] \in bookings[t]

\* Slot s is off-duty for resource r: outside the working hours, on a
\* vacation day or on a leave of r.
OffDutySlot(r, s) == s \notin working[r]

\* C2: every slot booked for a leaf task is a working slot of the resource
\* that holds it, in ASAP and in ALAP placement.
C2_BookedSlotsAreWorking ==
    \A t \in Tasks : \A s \in bookings[t] : ~OffDutySlot(tasks[t].resource, s)

\* Scheduling backward, a task is placed around off-duty slots: some slot
\* between its start and its end is off-duty and not booked.
C2_Witness ==
    /\ scheduling = "alap"
    /\ \E t \in Tasks :
          /\ status[t] = "Placed"
          /\ \E s \in Slots :
                /\ scheduled_start[t] < s
                /\ s < scheduled_end[t]
                /\ OffDutySlot(tasks[t].resource, s)

Days == {DayOf(s) : s \in Slots}

\* C12: with daily_max = D on the container resource, the slots booked on
\* its resources within one calendar day number at most D, in every
\* reachable state; the work above the cap lies on other days.
C12_DailyMaxHolds ==
    daily_max # NoLimit => \A d \in Days : BookedInDay(d, {}) <= daily_max

\* Scheduling forward, a day is booked up to the cap while a resource still
\* has a free working slot in it, and a task of that resource that was
\* allowed to start on that slot is placed on a later day.
C12_Witness ==
    /\ scheduling = "asap"
    /\ daily_max # NoLimit
    /\ \E t \in Tasks, s \in Slots :
          /\ status[t] = "Placed"
          /\ BookedInDay(DayOf(s), {}) = daily_max
          /\ FreeAndWorking(tasks[t].resource, s)
          /\ LowerBound(t) <= s
          /\ DayOf(scheduled_start[t]) > DayOf(s)

\* Slot s lies within the bounds the dependencies give task h.
InBounds(h, s) ==
    IF scheduling = "asap" THEN s >= LowerBound(h) ELSE s < UpperBound(h)

\* Task h has a booking that the scan reaches after slot s.
PlacedLater(h, s) ==
    \E x \in bookings[h] : IF scheduling = "asap" THEN x > s ELSE x < s

\* C13: in the emitted schedule no slot s booked by a task t is one that a
\* task h of higher priority on the same resource could have occupied under
\* its own bounds while h was placed later in the scan instead; so of two
\* tasks with the same anchor that compete for a resource the higher
\* priority one holds the earlier slots.
C13_PreemptionCorrect ==
    phase = "emitted"
        => \A t \in Tasks, h \in Tasks :
              (tasks[h].priority > tasks[t].priority /\ SameResource(t, h))
                 => \A s \in bookings[t] : ~(InBounds(h, s) /\ PlacedLater(h, s))

\* Scheduling forward, a high-priority task that became Ready only after
\* its predecessor was placed holds slots that a lower-priority task of the
\* same resource was allowed to use; the lower-priority task lies behind it.
C13_Witness ==
    /\ phase = "emitted"
    /\ scheduling = "asap"
    /\ \E t \in Tasks, h \in Tasks :
          /\ tasks[h].priority > tasks[t].priority
          /\ SameResource(t, h)
          /\ InEdges(h) # {}
          /\ LowerBound(t) <= scheduled_start[h]
          /\ scheduled_end[h] <= scheduled_start[t]

\* C14: in the emitted schedule the container task starts with its earliest
\* child and ends with its latest child.
C14_ContainerSpansChildren ==
    phase = "emitted"
        => /\ container_start = SetMin({scheduled_start[c] : c \in Children})
           /\ container_end = SetMax({scheduled_end[c] : c \in Children})

\* A schedule was emitted after a re-placement in which the earliest child
\* of the container is not its first one and the latest not its last one.
C14_Witness ==
    /\ phase = "emitted"
    /\ round > 2
    /\ container_start < scheduled_start[SetMin(Children)]
    /\ container_end > scheduled_end[SetMax(Children)]
    /\ container_start = SetMin({scheduled_start[c] : c \in Children})

\* The steps of the driver whose guard holds.
EnabledActions ==
    (IF MakeReadyGuard THEN {"MakeReady"} ELSE {})
    \cup (IF PlaceGuard THEN {"Place"} ELSE {})
    \cup (IF FailGuard THEN {"Fail"} ELSE {})
    \cup (IF ReleaseGuard THEN {"Release"} ELSE {})
    \cup (IF SkipGuard THEN {"Skip"} ELSE {})
    \cup (IF ConvergeGuard THEN {"Converge"} ELSE {})
    \cup (IF NextRoundGuard THEN {"NextRound"} ELSE {})

Transitions ==
    {<<"Unscheduled", "Ready">>, <<"Ready", "Placed">>, <<"Placed", "Ready">>,
     <<"Placed", "Frozen">>}
    \cup {<<from, "Failed">> :
             from \in {"Unscheduled", "Ready", "Placed", "Frozen"}}

\* C17: the status of a task changes only by a listed transition; a task
\* that goes from Placed back to Ready holds no booking afterwards; a task
\* becomes Frozen only when the round closed with no change anywhere; a
\* Frozen task keeps its status and its placement.
C17_OnlyListedTransitions ==
    [][\A t \in DOMAIN status :
          /\ status'[t] # status[t]
                => /\ <<status[t], status'[t]>> \in Transitions
                   /\ (status[t] = "Placed" /\ status'[t] = "Ready")
                         => /\ bookings'[t] = {}
                            /\ \A s \in Slots :
                                  scoreboard'[tasks[t].resource][s] # Booked(t)
                   /\ status'[t] = "Frozen" => (RoundClosed /\ ~changed)
          /\ status[t] = "Frozen"
                => /\ status'[t] = "Frozen"
                   /\ bookings'[t] = bookings[t]
                   /\ scheduled_start'[t] = scheduled_start[t]
                   /\ scheduled_end'[t] = scheduled_end[t]]_vars

\* A task went from Placed back to Ready: it holds no booking and the slot
\* it started on is Free again, while the driver is still running and
\* another task is Placed.
C17_Witness ==
    /\ phase = "running"
    /\ \E t \in Tasks, u \in Tasks :
          /\ status[t] = "Ready"
          /\ scheduled_end[t] > 0
          /\ bookings[t] = {}
          /\ scoreboard[tasks[t].resource][scheduled_start[t]] = Free
          /\ status[u] = "Placed"

====
